---- MODULE Spec2Model ----
(***************************************************************************)
(* Model of the token pallet in src/src/lib.rs: the storage items of       *)
(* decl_storage!, one action per dispatchable of decl_module! (create,     *)
(* transfer, transfer_from, pause, mint, burn) and one for the public      *)
(* helper transfer_.                                                       *)
(*                                                                         *)
(* Integer ranges are scaled down: TokenIndex (u32 in the source) is       *)
(* 0 .. MaxTokenIndex and BalanceOf<T> is 0 .. MaxBalance, so that the     *)
(* ends of both ranges are reachable.  The source uses the raw operators   *)
(* + and - on both types.  What they do out of range depends on the build: *)
(* with overflow checks off the result wraps, with overflow checks on the  *)
(* operator panics; a panic ends the call where it is raised: the inserts  *)
(* executed before it stay in storage, the later ones and the event are    *)
(* never reached.  The build is chosen in Init.                            *)
(***************************************************************************)
EXTENDS Integers, Sequences, FiniteSets, TLC

\* ---- bounds ----
MaxTokenIndex == 1   \* TokenIndex::max_value(), scaled down from 2^32 - 1
MaxBalance == 2      \* BalanceOf::<T>::max_value(), scaled down
MaxSteps == 2

\* ---- derived ranges ----
TokenIndexModulus == MaxTokenIndex + 1
BalanceModulus == MaxBalance + 1

TokenIndex == 0 .. MaxTokenIndex
Balance == 0 .. MaxBalance
AccountId == {0, 1}
BlockNumber == {1, 2}
Names == {"n1"}
Symbols == {"s1"}

\* AccountId::default(), the value an absent TokenOwner entry reads as
DefaultAccountId == 0

VARIABLES
    overflow_checks,  \* build: TRUE = out-of-range + and - panic, FALSE = wrap
    block_number,     \* system::Module::block_number()
    Tokens,           \* TokenIndex -> Option<TokenInfo>: <<>> or <<info>>
    TokenCount,
    TokenBalance,     \* (token, account) -> balance, absent = 0
    TokenSupply,
    TokenPaused,
    TokenApproval,
    TokenOwner,
    events,           \* events deposited by the most recent call
    last,             \* the most recent call: its inputs and its result
    steps             \* number of calls made in this run

storage == <<Tokens, TokenCount, TokenBalance, TokenSupply, TokenPaused,
             TokenApproval, TokenOwner>>
vars == <<overflow_checks, block_number, Tokens, TokenCount, TokenBalance,
          TokenSupply, TokenPaused, TokenApproval, TokenOwner, events, last,
          steps>>

\* ---- arithmetic of the fixed-width unsigned types ----
WrappingAdd(a, b, modulus) == (a + b) % modulus
WrappingSub(a, b, modulus) == (a - b + modulus) % modulus
AddOverflows(a, b, modulus) == a + b >= modulus
SubOverflows(a, b) == a < b

\* ---- storage getters generated by decl_storage! ----
token_balance(token, who) == TokenBalance[<<token, who>>]
token_supply(token) == TokenSupply[token]
token_paused(token) == TokenPaused[token]
\* token_owner reading the entry of token 0 whatever the token asked for
token_owner_of_first(token) == TokenOwner[0]
token_owner(token) == TokenOwner[token]

TokenInfo(name, symbol, owner, created) ==
    [name |-> name, symbol |-> symbol, owner |-> owner, created |-> created]

\* ---- the record of a call ----
Call(op, caller, token, account, value, status, result) ==
    [op |-> op, caller |-> caller, token |-> token, account |-> account,
     value |-> value, status |-> status, result |-> result]

NoCall == Call("none", DefaultAccountId, 0, DefaultAccountId, 0, FALSE, "Ok")

\* ensure!(caller == token_owner, NotTokenOwner)
NotTokenOwner_never(caller, token) == FALSE
NotTokenOwner(caller, token) == caller # token_owner(token)

\* an insert is in storage when the call reached it, that is when no early
\* return and no panic came before it
commit(reached, new, old) == IF reached THEN new ELSE old

\* deposit_event is reached only on the path that returns Ok(())
deposit_event(result, event) == IF result = "Ok" THEN <<event>> ELSE <<>>

Init ==
    /\ overflow_checks \in BOOLEAN
    /\ block_number = 1
    /\ Tokens = [i \in TokenIndex |-> <<>>]
    /\ TokenCount = 0
    /\ TokenBalance = [k \in TokenIndex \X AccountId |-> 0]
    /\ TokenSupply = [i \in TokenIndex |-> 0]
    /\ TokenPaused = [i \in TokenIndex |-> FALSE]
    /\ TokenApproval = [k \in TokenIndex \X AccountId \X AccountId |-> 0]
    /\ TokenOwner = [i \in TokenIndex |-> DefaultAccountId]
    /\ events = <<>>
    /\ last = NoCall
    /\ steps = 0

\* The storage after MaxTokenIndex create calls made in block 1 from the empty
\* storage: ids 0 .. MaxTokenIndex - 1 are handed out and the next create is
\* the one that reaches the end of the TokenIndex range.
Allocated == 0 .. (MaxTokenIndex - 1)

InitAfterCreates ==
    \E callers \in [Allocated -> AccountId], owners \in [Allocated -> AccountId],
       supplies \in [Allocated -> Balance] :
        /\ overflow_checks \in BOOLEAN
        /\ block_number = 1
        /\ Tokens = [i \in TokenIndex |->
               IF i \in Allocated
               THEN <<TokenInfo("n1", "s1", owners[i], 1)>> ELSE <<>>]
        /\ TokenCount = MaxTokenIndex
        /\ TokenBalance = [k \in TokenIndex \X AccountId |->
               IF k[1] \in Allocated /\ k[2] = callers[k[1]]
               THEN supplies[k[1]] ELSE 0]
        /\ TokenSupply = [i \in TokenIndex |->
               IF i \in Allocated THEN supplies[i] ELSE 0]
        /\ TokenPaused = [i \in TokenIndex |-> FALSE]
        /\ TokenApproval = [k \in TokenIndex \X AccountId \X AccountId |-> 0]
        /\ TokenOwner = [i \in TokenIndex |->
               IF i \in Allocated THEN callers[i] ELSE DefaultAccountId]
        /\ events = << <<"Created", MaxTokenIndex - 1, callers[MaxTokenIndex - 1]>> >>
        /\ last = Call("create", callers[MaxTokenIndex - 1], MaxTokenIndex - 1,
                       owners[MaxTokenIndex - 1], supplies[MaxTokenIndex - 1],
                       FALSE, "Ok")
        /\ steps = 0

\* ---- create (lib.rs 88-116) ----
create_result ==
    IF overflow_checks /\ AddOverflows(TokenCount, 1, TokenIndexModulus)
    THEN "Panic" ELSE "Ok"

create(caller, owner, name, symbol, initial_supply, now) ==
    LET index == TokenCount
        result == create_result
        created == now
    IN  /\ steps < MaxSteps
        /\ steps' = steps + 1
        /\ block_number' = now
        /\ TokenCount' = commit(result = "Ok", WrappingAdd(index, 1, TokenIndexModulus), TokenCount)
        /\ Tokens' = commit(result = "Ok",
               [Tokens EXCEPT ![index] = <<TokenInfo(name, symbol, owner, created)>>],
               Tokens)
        /\ TokenBalance' = commit(result = "Ok",
               [TokenBalance EXCEPT ![<<index, caller>>] = initial_supply],
               TokenBalance)
        /\ TokenSupply' = commit(result = "Ok",
               [TokenSupply EXCEPT ![index] = initial_supply], TokenSupply)
        /\ TokenOwner' = commit(result = "Ok",
               [TokenOwner EXCEPT ![index] = caller], TokenOwner)
        /\ events' = deposit_event(result, <<"Created", index, caller>>)
        /\ last' = Call("create", caller, index, owner, initial_supply, FALSE, result)
        /\ UNCHANGED <<overflow_checks, TokenPaused, TokenApproval>>

\* ---- transfer (lib.rs 119-134) ----
transfer_result(caller, token, to, value) ==
    IF overflow_checks /\ SubOverflows(token_balance(token, caller), value)
    THEN "Panic"
    ELSE IF overflow_checks
            /\ AddOverflows(token_balance(token, to), value, BalanceModulus)
    THEN "Panic" ELSE "Ok"

transfer(caller, token, to, value) ==
    LET sender_balance == token_balance(token, caller)
        receiver_balance == token_balance(token, to)
        result == transfer_result(caller, token, to, value)
        debit_panics == overflow_checks /\ SubOverflows(sender_balance, value)
        debited == [TokenBalance EXCEPT ![<<token, caller>>] =
                        WrappingSub(sender_balance, value, BalanceModulus)]
        credited == [debited EXCEPT ![<<token, to>>] =
                        WrappingAdd(receiver_balance, value, BalanceModulus)]
    IN  /\ steps < MaxSteps
        /\ steps' = steps + 1
        /\ TokenBalance' = commit(result = "Ok", credited,
               commit(~debit_panics, debited, TokenBalance))
        /\ events' = deposit_event(result, <<"Transfer", token, caller, to, value>>)
        /\ last' = Call("transfer", caller, token, to, value, FALSE, result)
        /\ UNCHANGED <<overflow_checks, block_number, Tokens, TokenCount,
                       TokenSupply, TokenPaused, TokenApproval, TokenOwner>>

\* ---- transfer_from (lib.rs 137-152) ----
transfer_from_result(to, token, from, value) ==
    IF overflow_checks /\ SubOverflows(token_balance(token, from), value)
    THEN "Panic"
    ELSE IF overflow_checks
            /\ AddOverflows(token_balance(token, to), value, BalanceModulus)
    THEN "Panic" ELSE "Ok"

transfer_from(to, token, from, value) ==
    LET from_balance == token_balance(token, from)
        to_balance == token_balance(token, to)
        result == transfer_from_result(to, token, from, value)
        debit_panics == overflow_checks /\ SubOverflows(from_balance, value)
        debited == [TokenBalance EXCEPT ![<<token, from>>] =
                        WrappingSub(from_balance, value, BalanceModulus)]
        credited == [debited EXCEPT ![<<token, to>>] =
                        WrappingAdd(to_balance, value, BalanceModulus)]
    IN  /\ steps < MaxSteps
        /\ steps' = steps + 1
        /\ TokenBalance' = commit(result = "Ok", credited,
               commit(~debit_panics, debited, TokenBalance))
        /\ events' = deposit_event(result, <<"TransferFrom", token, from, to, value>>)
        /\ last' = Call("transfer_from", to, token, from, value, FALSE, result)
        /\ UNCHANGED <<overflow_checks, block_number, Tokens, TokenCount,
                       TokenSupply, TokenPaused, TokenApproval, TokenOwner>>

\* ---- pause (lib.rs 156-174) ----
pause_result(caller, token) ==
    IF NotTokenOwner(caller, token) THEN "NotTokenOwner" ELSE "Ok"

\* lines 164-170: the value written is computed from the stored flag
pause_new_status(token, status) ==
    LET token_boolean == token_paused(token)
    IN  IF token_boolean THEN TRUE ELSE FALSE

\* pause writing the requested status ahead of the owner check
pause_unguarded(caller, token, status) ==
    LET result == pause_result(caller, token)
        new_status == pause_new_status(token, status)
    IN  /\ steps < MaxSteps
        /\ steps' = steps + 1
        /\ TokenPaused' = [TokenPaused EXCEPT ![token] = status]
        /\ events' = deposit_event(result, <<"PausedOperation", token, new_status>>)
        /\ last' = Call("pause", caller, token, DefaultAccountId, 0, status, result)
        /\ UNCHANGED <<overflow_checks, block_number, Tokens, TokenCount,
                       TokenBalance, TokenSupply, TokenApproval, TokenOwner>>

pause(caller, token, status) ==
    LET result == pause_result(caller, token)
        new_status == pause_new_status(token, status)
    IN  /\ steps < MaxSteps
        /\ steps' = steps + 1
        /\ TokenPaused' = commit(result = "Ok",
               [TokenPaused EXCEPT ![token] = new_status], TokenPaused)
        /\ events' = deposit_event(result, <<"PausedOperation", token, new_status>>)
        /\ last' = Call("pause", caller, token, DefaultAccountId, 0, status, result)
        /\ UNCHANGED <<overflow_checks, block_number, Tokens, TokenCount,
                       TokenBalance, TokenSupply, TokenApproval, TokenOwner>>

\* ---- mint (lib.rs 177-193) ----
mint_result(caller, token, value) ==
    IF NotTokenOwner(caller, token) THEN "NotTokenOwner"
    ELSE IF overflow_checks
            /\ AddOverflows(token_balance(token, caller), value, BalanceModulus)
    THEN "Panic"
    ELSE IF overflow_checks
            /\ AddOverflows(token_supply(token), value, BalanceModulus)
    THEN "Panic" ELSE "Ok"

mint(caller, token, value) ==
    LET result == mint_result(caller, token, value)
        minter_balance == token_balance(token, caller)
        token_supply_ == token_supply(token)
        \* line 188 is reached past the ensure! and past its own addition
        balance_written ==
            /\ ~NotTokenOwner(caller, token)
            /\ ~(overflow_checks
                 /\ AddOverflows(minter_balance, value, BalanceModulus))
    IN  /\ steps < MaxSteps
        /\ steps' = steps + 1
        /\ TokenBalance' = commit(balance_written,
               [TokenBalance EXCEPT ![<<token, caller>>] =
                    WrappingAdd(minter_balance, value, BalanceModulus)],
               TokenBalance)
        /\ TokenSupply' = commit(result = "Ok",
               [TokenSupply EXCEPT ![token] =
                    WrappingAdd(token_supply_, value, BalanceModulus)],
               TokenSupply)
        /\ events' = deposit_event(result, <<"Mint", token, caller, value>>)
        /\ last' = Call("mint", caller, token, DefaultAccountId, value, FALSE, result)
        /\ UNCHANGED <<overflow_checks, block_number, Tokens, TokenCount,
                       TokenPaused, TokenApproval, TokenOwner>>

\* ---- burn (lib.rs 196-212) ----
burn_result(caller, token, value) ==
    IF NotTokenOwner(caller, token) THEN "NotTokenOwner"
    ELSE IF overflow_checks /\ SubOverflows(token_balance(token, caller), value)
    THEN "Panic"
    ELSE IF overflow_checks /\ SubOverflows(token_supply(token), value)
    THEN "Panic" ELSE "Ok"

burn(caller, token, value) ==
    LET result == burn_result(caller, token, value)
        burner_balance == token_balance(token, caller)
        token_supply_ == token_supply(token)
        \* line 207 is reached past the ensure! and past its own subtraction
        balance_written ==
            /\ ~NotTokenOwner(caller, token)
            /\ ~(overflow_checks /\ SubOverflows(burner_balance, value))
    IN  /\ steps < MaxSteps
        /\ steps' = steps + 1
        /\ TokenBalance' = commit(balance_written,
               [TokenBalance EXCEPT ![<<token, caller>>] =
                    WrappingSub(burner_balance, value, BalanceModulus)],
               TokenBalance)
        /\ TokenSupply' = commit(result = "Ok",
               [TokenSupply EXCEPT ![token] =
                    WrappingSub(token_supply_, value, BalanceModulus)],
               TokenSupply)
        /\ events' = deposit_event(result, <<"Burn", token, caller, value>>)
        /\ last' = Call("burn", caller, token, DefaultAccountId, value, FALSE, result)
        /\ UNCHANGED <<overflow_checks, block_number, Tokens, TokenCount,
                       TokenPaused, TokenApproval, TokenOwner>>

\* ---- transfer_ (lib.rs 221-227): public, no origin, no event ----
transfer__result(token, from, to, value) ==
    IF overflow_checks /\ SubOverflows(token_balance(token, from), value)
    THEN "Panic"
    ELSE IF overflow_checks
            /\ AddOverflows(token_balance(token, to), value, BalanceModulus)
    THEN "Panic" ELSE "Ok"

transfer_(token, from, to, value) ==
    LET from_balance == token_balance(token, from)
        to_balance == token_balance(token, to)
        result == transfer__result(token, from, to, value)
        debit_panics == overflow_checks /\ SubOverflows(from_balance, value)
        debited == [TokenBalance EXCEPT ![<<token, from>>] =
                        WrappingSub(from_balance, value, BalanceModulus)]
        credited == [debited EXCEPT ![<<token, to>>] =
                        WrappingAdd(to_balance, value, BalanceModulus)]
    IN  /\ steps < MaxSteps
        /\ steps' = steps + 1
        /\ TokenBalance' = commit(result = "Ok", credited,
               commit(~debit_panics, debited, TokenBalance))
        /\ events' = <<>>
        /\ last' = Call("transfer_", from, token, to, value, FALSE, result)
        /\ UNCHANGED <<overflow_checks, block_number, Tokens, TokenCount,
                       TokenSupply, TokenPaused, TokenApproval, TokenOwner>>

\* ---- helpers of the properties ----
RECURSIVE SumBalances(_, _)
SumBalances(token, accounts) ==
    IF accounts = {} THEN 0
    ELSE LET who == CHOOSE a \in accounts : TRUE
         IN  TokenBalance[<<token, who>>] + SumBalances(token, accounts \ {who})

\* the balance of every account of a token, added up as unbounded integers
TotalBalance(token) == SumBalances(token, AccountId)

Created(token) == Tokens[token] # <<>>

\* C1: for every token id, Supply[token] is the sum over all accounts of
\* Balance[(token, account)], in every reachable state (stated here for the
\* ids create has handed out, where it already fails).
C1_Conservation ==
    \A token \in TokenIndex :
        Created(token) => TokenSupply[token] = TotalBalance(token)

\* C2: a transfer (of a created token) whose caller holds less than value
\* fails with InsufficientAmount, changes no map and emits no event.
C2_InsufficientTransferFails ==
    [][ (last'.op = "transfer"
          /\ Created(last'.token)
          /\ token_balance(last'.token, last'.caller) < last'.value)
        => (/\ last'.result = "InsufficientAmount"
            /\ UNCHANGED storage
            /\ events' = <<>>) ]_vars

\* the arithmetic of a mint, burn or pause call stays in range
OwnerCallInRange(call) ==
    CASE call.op = "mint" ->
            /\ token_balance(call.token, call.caller) + call.value <= MaxBalance
            /\ token_supply(call.token) + call.value <= MaxBalance
      [] call.op = "burn" ->
            /\ token_balance(call.token, call.caller) >= call.value
            /\ token_supply(call.token) >= call.value
      [] OTHER -> TRUE

\* C3: mint, burn and pause by a caller other than Owner[token] fail with
\* NotTokenOwner, change no state and emit no event; by Owner[token] they are
\* admitted: never NotTokenOwner, and Ok whenever the sum or difference the
\* call computes is in range.
C3_OwnerGating ==
    [][ last'.op \in {"mint", "burn", "pause"}
        => IF last'.caller # TokenOwner[last'.token]
           THEN /\ last'.result = "NotTokenOwner"
                /\ UNCHANGED storage
                /\ events' = <<>>
           ELSE /\ last'.result # "NotTokenOwner"
                /\ OwnerCallInRange(last') => last'.result = "Ok" ]_vars

\* a caller other than the owner of a created token was turned away
C3_Witness ==
    /\ last.op \in {"mint", "burn", "pause"}
    /\ Created(last.token)
    /\ last.caller # TokenOwner[last.token]
    /\ last.result = "NotTokenOwner"

\* C4: after create(owner = o, ...) by caller c, Owner[id] = o: the owner
\* argument passes the authorization check of mint, burn and pause for id,
\* and when o # c the caller does not.
C4_OwnerIsArgument ==
    (last.op = "create" /\ last.result = "Ok")
    => /\ TokenOwner[last.token] = last.account
       /\ ~NotTokenOwner(last.account, last.token)
       /\ last.account # last.caller => NotTokenOwner(last.caller, last.token)

\* C5: a successful pause(token, status) by the owner of a created token
\* sets Paused[token] to status and emits PausedOperation(token, status).
C5_PauseSetsStatus ==
    (last.op = "pause" /\ last.result = "Ok" /\ Created(last.token))
    => /\ TokenPaused[last.token] = last.status
       /\ events = << <<"PausedOperation", last.token, last.status>> >>

\* C6: burn by the owner of a created token with value above the owner's
\* balance or above the supply fails with InsufficientAmount; Supply[token]
\* and Balance[(token, owner)] stay as they were.
C6_InsufficientBurnFails ==
    [][ (/\ last'.op = "burn"
         /\ Created(last'.token)
         /\ last'.caller = TokenOwner[last'.token]
         /\ \/ last'.value > token_balance(last'.token, last'.caller)
            \/ last'.value > token_supply(last'.token))
        => (/\ last'.result = "InsufficientAmount"
            /\ TokenSupply' = TokenSupply
            /\ TokenBalance' = TokenBalance) ]_vars

\* C7: mint by the owner of a created token is rejected (it does not return
\* Ok), balance and supply unchanged, when balance + value or supply + value
\* exceeds the maximum of the Balance type.
C7_MintOverflowRejected ==
    [][ (/\ last'.op = "mint"
         /\ Created(last'.token)
         /\ last'.caller = TokenOwner[last'.token]
         /\ \/ token_balance(last'.token, last'.caller) + last'.value > MaxBalance
            \/ token_supply(last'.token) + last'.value > MaxBalance)
        => (/\ last'.result # "Ok"
            /\ TokenSupply' = TokenSupply
            /\ TokenBalance' = TokenBalance) ]_vars

\* a subtraction of the call goes below zero or an addition above MaxBalance
OutOfRange(call) ==
    CASE call.op = "transfer" ->
            \/ token_balance(call.token, call.caller) < call.value
            \/ token_balance(call.token, call.account) + call.value > MaxBalance
      [] call.op = "transfer_from" ->
            \/ token_balance(call.token, call.account) < call.value
            \/ token_balance(call.token, call.caller) + call.value > MaxBalance
      [] call.op \in {"mint", "burn"} ->
            /\ call.caller = TokenOwner[call.token]
            /\ ~OwnerCallInRange(call)
      [] OTHER -> FALSE

\* C8: no wraparound is observable: a transfer, transfer_from, mint or burn
\* (of a created token) whose subtraction would go below zero or whose
\* addition would exceed the maximum fails and leaves the state unchanged.
C8_NoWraparound ==
    [][ (Created(last'.token) /\ OutOfRange(last'))
        => (last'.result # "Ok" /\ UNCHANGED storage) ]_vars

\* every write of the call that returned Ok is in the storage after it
Committed(call) ==
    CASE call.op = "create" ->
            /\ TokenCount' = WrappingAdd(TokenCount, 1, TokenIndexModulus)
            /\ Tokens'[call.token] # <<>>
            /\ Tokens'[call.token][1].owner = call.account
            /\ TokenBalance'[<<call.token, call.caller>>] = call.value
            /\ TokenSupply'[call.token] = call.value
            /\ TokenOwner'[call.token] = call.caller
      [] call.op = "transfer" ->
            /\ TokenBalance'[<<call.token, call.account>>] =
                  WrappingAdd(token_balance(call.token, call.account),
                              call.value, BalanceModulus)
            /\ call.caller # call.account =>
                  TokenBalance'[<<call.token, call.caller>>] =
                     WrappingSub(token_balance(call.token, call.caller),
                                 call.value, BalanceModulus)
      [] call.op = "transfer_from" ->
            /\ TokenBalance'[<<call.token, call.caller>>] =
                  WrappingAdd(token_balance(call.token, call.caller),
                              call.value, BalanceModulus)
            /\ call.caller # call.account =>
                  TokenBalance'[<<call.token, call.account>>] =
                     WrappingSub(token_balance(call.token, call.account),
                                 call.value, BalanceModulus)
      [] call.op = "mint" ->
            /\ TokenBalance'[<<call.token, call.caller>>] =
                  WrappingAdd(token_balance(call.token, call.caller),
                              call.value, BalanceModulus)
            /\ TokenSupply'[call.token] =
                  WrappingAdd(token_supply(call.token), call.value, BalanceModulus)
      [] call.op = "burn" ->
            /\ TokenBalance'[<<call.token, call.caller>>] =
                  WrappingSub(token_balance(call.token, call.caller),
                              call.value, BalanceModulus)
            /\ TokenSupply'[call.token] =
                  WrappingSub(token_supply(call.token), call.value, BalanceModulus)
      [] call.op = "pause" -> TokenPaused'[call.token] = token_paused(call.token)
      [] OTHER -> FALSE

\* the six dispatchable calls
Dispatchables == {"create", "transfer", "transfer_from", "pause", "mint", "burn"}

\* C9: every invocation of create, transfer, transfer_from, mint, burn or
\* pause (on a token that exists or is being created) either commits all of
\* its map updates and emits exactly one event, or leaves every storage map
\* unchanged and emits no event.
C9_AllOrNothing ==
    [][ (/\ last'.op \in Dispatchables
         /\ last'.op = "create" \/ Created(last'.token))
        => \/ /\ last'.result = "Ok"
              /\ Len(events') = 1
              /\ Committed(last')
           \/ /\ last'.result # "Ok"
              /\ UNCHANGED storage
              /\ events' = <<>> ]_vars

\* C10: every create call assigns the id TokenCount held before the call and
\* increases TokenCount by exactly 1, also at the upper end of the id range;
\* no other call changes TokenCount.
C10_TokenIdAllocation ==
    [][ IF last'.op = "create"
        THEN /\ last'.result = "Ok"
             /\ last'.token = TokenCount
             /\ TokenCount' = TokenCount + 1
        ELSE TokenCount' = TokenCount ]_vars

\* C11: for a created token t, accounts a # b and v <= Balance[(t,a)],
\* transfer(t, b, v) by a succeeds, takes exactly v from Balance[(t,a)], adds
\* exactly v to Balance[(t,b)] and leaves the sum of the two unchanged.
C11_TransferConservation ==
    [][ (/\ last'.op = "transfer"
         /\ Created(last'.token)
         /\ last'.caller # last'.account
         /\ last'.value <= token_balance(last'.token, last'.caller))
        => (/\ last'.result = "Ok"
            /\ TokenBalance'[<<last'.token, last'.caller>>] =
                  token_balance(last'.token, last'.caller) - last'.value
            /\ TokenBalance'[<<last'.token, last'.account>>] =
                  token_balance(last'.token, last'.account) + last'.value
            /\ TokenBalance'[<<last'.token, last'.caller>>]
                  + TokenBalance'[<<last'.token, last'.account>>] =
               token_balance(last'.token, last'.caller)
                  + token_balance(last'.token, last'.account)) ]_vars

\* C12: transfer_from(token, from, value) by caller c with
\* Balance[(token, from)] >= value debits from and credits c by value and
\* never touches the Allowance map, which stays at its default; with
\* Balance[(token, from)] < value it fails with InsufficientAmount and
\* changes nothing.
C12_TransferFrom ==
    [][ (last'.op = "transfer_from" /\ Created(last'.token))
        => /\ \A k \in DOMAIN TokenApproval : TokenApproval'[k] = 0
           /\ IF token_balance(last'.token, last'.account) >= last'.value
              THEN /\ last'.result = "Ok"
                   /\ last'.caller # last'.account =>
                        /\ TokenBalance'[<<last'.token, last'.account>>] =
                              token_balance(last'.token, last'.account) - last'.value
                        /\ TokenBalance'[<<last'.token, last'.caller>>] =
                              token_balance(last'.token, last'.caller) + last'.value
              ELSE /\ last'.result = "InsufficientAmount"
                   /\ UNCHANGED storage
                   /\ events' = <<>> ]_vars

\* C13: create by caller c always succeeds and, for the new id, sets
\* Balance[(id, c)] and Supply[id] to initial_supply, leaves Paused[id]
\* false and emits Created(id, c).
C13_CreateSucceeds ==
    [][ last'.op = "create"
        => /\ last'.result = "Ok"
           /\ last'.token = TokenCount
           /\ TokenBalance'[<<last'.token, last'.caller>>] = last'.value
           /\ TokenSupply'[last'.token] = last'.value
           /\ TokenPaused'[last'.token] = FALSE
           /\ events' = << <<"Created", last'.token, last'.caller>> >> ]_vars

\* C14: Supply[t] (of a token that is created or being created) changes only
\* in the create that allocates t (to initial_supply), in a successful mint
\* on t (up by exactly value) or in a successful burn on t (down by exactly
\* value); transfer, transfer_from and pause never change it.
C14_SupplyFrame ==
    [][ \A t \in TokenIndex :
          ((Created(t) \/ last'.op = "create") /\ TokenSupply'[t] # TokenSupply[t])
          => /\ last'.token = t
             /\ last'.result = "Ok"
             /\ \/ last'.op = "create" /\ TokenSupply'[t] = last'.value
                \/ last'.op = "mint"
                   /\ TokenSupply'[t] = TokenSupply[t] + last'.value
                \/ last'.op = "burn"
                   /\ TokenSupply'[t] = TokenSupply[t] - last'.value ]_vars

\* C15: once a token id has been created, its TokenInfo and its Owner[id]
\* entry keep their creation-time values in every later state.
C15_RegistryImmutable ==
    [][ \A id \in TokenIndex :
          Created(id) => /\ Tokens'[id] = Tokens[id]
                         /\ TokenOwner'[id] = TokenOwner[id] ]_vars

\* everything the storage holds for one token id
TokenSlice(t) ==
    [balance |-> [a \in AccountId |-> TokenBalance[<<t, a>>]],
     supply |-> TokenSupply[t],
     paused |-> TokenPaused[t],
     owner |-> TokenOwner[t]]

TokenCalls == {"transfer", "transfer_from", "pause", "mint", "burn"}

\* the result of a call on a token, computed from the slice sl of that token
\* (and the build) alone
SliceResult(sl, call) ==
    LET bal == sl.balance
        v == call.value
        c == call.caller
        x == call.account
        Trap(out_of_range) == IF overflow_checks /\ out_of_range THEN "Panic" ELSE "Ok"
    IN  CASE call.op = "transfer" -> Trap(bal[c] < v \/ bal[x] + v > MaxBalance)
          [] call.op = "transfer_from" -> Trap(bal[x] < v \/ bal[c] + v > MaxBalance)
          [] call.op = "pause" -> IF c # sl.owner THEN "NotTokenOwner" ELSE "Ok"
          [] call.op = "mint" ->
                IF c # sl.owner THEN "NotTokenOwner"
                ELSE Trap(bal[c] + v > MaxBalance \/ sl.supply + v > MaxBalance)
          [] call.op = "burn" ->
                IF c # sl.owner THEN "NotTokenOwner"
                ELSE Trap(bal[c] < v \/ sl.supply < v)

\* what a call leaves of the slice sl of its own token, computed from sl (and
\* the build) alone: the inserts the call reached
SliceAfter(sl, call) ==
    LET bal == sl.balance
        v == call.value
        c == call.caller
        x == call.account
        ok == SliceResult(sl, call) = "Ok"
        Reached(out_of_range) == ~(overflow_checks /\ out_of_range)
    IN  CASE call.op = "transfer" ->
                IF ~Reached(bal[c] < v) THEN sl
                ELSE IF ~ok
                THEN [sl EXCEPT !.balance[c] = WrappingSub(bal[c], v, BalanceModulus)]
                ELSE [sl EXCEPT !.balance =
                        [[bal EXCEPT ![c] = WrappingSub(bal[c], v, BalanceModulus)]
                              EXCEPT ![x] = WrappingAdd(bal[x], v, BalanceModulus)]]
          [] call.op = "transfer_from" ->
                IF ~Reached(bal[x] < v) THEN sl
                ELSE IF ~ok
                THEN [sl EXCEPT !.balance[x] = WrappingSub(bal[x], v, BalanceModulus)]
                ELSE [sl EXCEPT !.balance =
                        [[bal EXCEPT ![x] = WrappingSub(bal[x], v, BalanceModulus)]
                              EXCEPT ![c] = WrappingAdd(bal[c], v, BalanceModulus)]]
          [] call.op = "mint" ->
                IF c # sl.owner \/ ~Reached(bal[c] + v > MaxBalance) THEN sl
                ELSE IF ~ok
                THEN [sl EXCEPT !.balance[c] = WrappingAdd(bal[c], v, BalanceModulus)]
                ELSE [sl EXCEPT !.balance[c] = WrappingAdd(bal[c], v, BalanceModulus),
                                !.supply = WrappingAdd(sl.supply, v, BalanceModulus)]
          [] call.op = "burn" ->
                IF c # sl.owner \/ ~Reached(bal[c] < v) THEN sl
                ELSE IF ~ok
                THEN [sl EXCEPT !.balance[c] = WrappingSub(bal[c], v, BalanceModulus)]
                ELSE [sl EXCEPT !.balance[c] = WrappingSub(bal[c], v, BalanceModulus),
                                !.supply = WrappingSub(sl.supply, v, BalanceModulus)]
          [] OTHER -> sl

\* C16: a transfer, transfer_from, mint, burn or pause on token t1 leaves
\* every Balance, Supply, Owner and Paused entry of each other token t2
\* unchanged, and its result and the entries of t1 after it depend on the
\* entries of t1 alone: two calls on different tokens give the same results
\* and the same final state in either order.
C16_CrossTokenIndependence ==
    [][ last'.op \in TokenCalls
        => \A t \in TokenIndex :
              IF t = last'.token
              THEN /\ last'.result = SliceResult(TokenSlice(t), last')
                   /\ TokenSlice(t)' = SliceAfter(TokenSlice(t), last')
              ELSE TokenSlice(t)' = TokenSlice(t) ]_vars

\* a call changed the entries of one token while another token holds a supply
C16_Witness ==
    /\ last.op \in TokenCalls
    /\ last.result = "Ok"
    /\ last.value > 0
    /\ \E t2 \in TokenIndex \ {last.token} : Created(t2) /\ TokenSupply[t2] > 0

\* C17: Paused[t] is false initially and right after t is created, and it
\* changes only in a successful pause(t, .) made by Owner[t]; every other
\* call, failed pause calls included, leaves the whole Paused map unchanged.
C17_PauseStateMachine ==
    /\ \A t \in TokenIndex : TokenPaused[t] = FALSE
    /\ [][ /\ (last'.op = "create" /\ last'.result = "Ok")
              => TokenPaused'[last'.token] = FALSE
           /\ \A t \in TokenIndex :
                TokenPaused'[t] # TokenPaused[t]
                => /\ last'.op = "pause"
                   /\ last'.result = "Ok"
                   /\ last'.token = t
                   /\ last'.caller = TokenOwner[t] ]_vars

\* a pause(t, TRUE) call on a created token by an account that is not its
\* owner was turned away
C17_Witness ==
    /\ last.op = "pause"
    /\ Created(last.token)
    /\ last.status = TRUE
    /\ last.result = "NotTokenOwner"
    /\ last.caller # TokenOwner[last.token]

\* C18: a transfer to the caller, or a transfer_from from the caller, of a
\* value the caller holds leaves the caller's balance of the token and the
\* sum of all balances of the token unchanged.
C18_SelfTransferNeutral ==
    [][ \A t \in TokenIndex :
          (/\ last'.op \in {"transfer", "transfer_from"}
           /\ last'.token = t
           /\ Created(t)
           /\ last'.account = last'.caller
           /\ last'.value <= token_balance(t, last'.caller))
          => /\ TokenBalance'[<<t, last'.caller>>] = token_balance(t, last'.caller)
             /\ TotalBalance(t)' = TotalBalance(t) ]_vars

\* C19: for every token id that create has not allocated, every Balance
\* entry, Supply, Paused and Owner are at their default in every reachable
\* state.
C19_NoStateForUncreated ==
    \A id \in TokenIndex :
        (id >= TokenCount /\ ~Created(id))
        => /\ \A a \in AccountId : TokenBalance[<<id, a>>] = 0
           /\ TokenSupply[id] = 0
           /\ TokenPaused[id] = FALSE
           /\ TokenOwner[id] = DefaultAccountId

\* C20: for every created token id, the owner field of Tokens[id] equals
\* the Owner[id] entry that mint, burn and pause consult.
C20_OwnerRecordsAgree ==
    \A id \in TokenIndex :
        Created(id) => Tokens[id][1].owner = TokenOwner[id]

Next ==
    \/ \E caller \in AccountId, owner \in AccountId, name \in Names,
          symbol \in Symbols, initial_supply \in Balance,
          now \in {b \in BlockNumber : b >= block_number} :
          create(caller, owner, name, symbol, initial_supply, now)
    \/ \E caller \in AccountId, token \in TokenIndex, to \in AccountId,
          value \in Balance : transfer(caller, token, to, value)
    \/ \E to \in AccountId, token \in TokenIndex, from \in AccountId,
          value \in Balance : transfer_from(to, token, from, value)
    \/ \E caller \in AccountId, token \in TokenIndex, status \in BOOLEAN :
          pause(caller, token, status)
    \/ \E caller \in AccountId, token \in TokenIndex, value \in Balance :
          mint(caller, token, value)
    \/ \E caller \in AccountId, token \in TokenIndex, value \in Balance :
          burn(caller, token, value)
    \/ \E token \in TokenIndex, from \in AccountId, to \in AccountId,
          value \in Balance : transfer_(token, from, to, value)

Spec == Init /\ [][Next]_vars

\* the same calls, made after the first MaxTokenIndex tokens were created
SpecAfterCreates == InitAfterCreates /\ [][Next]_vars
====
